---- MODULE Spec2Model ----
(***************************************************************************)
(* Model of cv_plot.gui: the MouseAdapter pointer-event state machine      *)
(* (mouse_adapter.py), the Window lifecycle with its module-level          *)
(* name -> Window registry (window.py) and the static multi-window wait    *)
(* loop Window.waitKey_static.                                             *)
(*                                                                         *)
(* The host toolkit (cv2) is the environment: named host windows with a    *)
(* client-rect size, pointer callbacks, key polls and the passing of time. *)
(* The plot surface (Axes) is opaque: the model records the calls that an  *)
(* operation makes on it, in order, in the variable  log.                  *)
(***************************************************************************)
EXTENDS Integers, Sequences, FiniteSets, TLC

(***************************************************************************)
(* Bounds of the model.                                                    *)
(***************************************************************************)
MaxObjs == 2
MaxCoord == 1
MaxCols == 1
MaxRows == 1
MaxDelay == 1
MaxNotch == 1

Objs == 1..MaxObjs
Names == {"W", "V"}
Points == {<<x, y>> : x \in 0..MaxCoord, y \in 0..MaxCoord}
Sizes == {<<c, r>> : c \in 0..MaxCols, r \in 0..MaxRows}
Delays == -1..MaxDelay
Keys == {27, 113}

(***************************************************************************)
(* cv2 constants the source names.                                         *)
(***************************************************************************)
EVENT_MOUSEMOVE == 0
EVENT_RBUTTONDOWN == 2
EVENT_MBUTTONDOWN == 3
EVENT_RBUTTONDBLCLK == 8
EVENT_MOUSEWHEEL == 10
EVENT_FLAG_RBUTTON == 2
EVENT_FLAG_MBUTTON == 4
NoKey == -1

\* The event kinds the handler has no branch for: LBUTTONDOWN, the three
\* BUTTONUPs, LBUTTONDBLCLK, MBUTTONDBLCLK and MOUSEHWHEEL.
OtherEvents == {1, 4, 5, 6, 7, 9, 11}

\* Button flags: every combination of LBUTTON (1), RBUTTON (2), MBUTTON (4).
ButtonFlags == 0..7
\* Wheel flags as the host packs them: the signed wheel delta (120 per notch)
\* in the high 16 bits, the button flags in the low 16 bits.
WheelFlags ==
    {k * 120 * 65536 + b : k \in ((-MaxNotch)..MaxNotch) \ {0}, b \in {0, EVENT_FLAG_MBUTTON}}

\* The (event, flags) pairs of the non-wheel events delivered to the adapter:
\* a move with every combination of button flags, every other kind with no
\* button held, with both of MBUTTON and RBUTTON held and, for the kinds the
\* handler has a branch for, with LBUTTON and RBUTTON held.
ButtonInputs ==
    ({EVENT_MOUSEMOVE} \X ButtonFlags)
        \cup ({EVENT_RBUTTONDOWN, EVENT_MBUTTONDOWN, EVENT_RBUTTONDBLCLK} \X {0, 3, 6})
        \cup (OtherEvents \X {0, 6})
\* The non-wheel events and positions delivered while windows come and go.
PointerInputs == {<<EVENT_MOUSEMOVE, 0>>, <<EVENT_MBUTTONDOWN, EVENT_FLAG_MBUTTON>>}
PointerPoints == {<<0, 0>>, <<MaxCoord, 0>>}

\* MouseEvent: the raw callback fields and the render size (mouse_event.py).
MouseEvent(renderSize, event, x, y, flags) ==
    [renderSize |-> renderSize, event |-> event, x |-> x, y |-> y, flags |-> flags]

outerPoint(mouseEvent) == <<mouseEvent.x, mouseEvent.y>>

\* Python's  flags & bit  for a one-bit mask (two's complement for negatives).
HasFlag(flags, bit) == (flags \div bit) % 2 = 1

\* math.pow(base, num / den), kept symbolic: base is the source's literal.
Pow(base, num, den) == [base |-> base, num |-> num, den |-> den]

(***************************************************************************)
(* Calls on the plot surface, the user handler and the host, as logged.    *)
(***************************************************************************)
CallPan(renderSize, delta) == [fn |-> "pan", renderSize |-> renderSize, delta |-> delta]
CallZoom(renderSize, anchor, sx, sy) ==
    [fn |-> "zoom", renderSize |-> renderSize, anchor |-> anchor, scaleX |-> sx, scaleY |-> sy]
CallSetXLimAuto == [fn |-> "setXLimAuto"]
CallSetYLimAuto == [fn |-> "setYLimAuto"]
CallUser(mouseEvent) == [fn |-> "mouseEventHandler", mouseEvent |-> mouseEvent]
CallRect(name) == [fn |-> "getWindowImageRect", name |-> name]
CallRender(size) == [fn |-> "render", size |-> size]
CallImshow(name, size) == [fn |-> "imshow", name |-> name, size |-> size]

(***************************************************************************)
(* MouseAdapter._handle_event: the built-in handler.  Given the adapter's  *)
(* press and last positions and the event, the new positions, the calls    *)
(* made on the Axes and the returned  update  flag.                        *)
(***************************************************************************)
HandleResult(press, last, calls, update) ==
    [press |-> press, last |-> last, calls |-> calls, update |-> update,
     raised |-> FALSE]

\* The handler leaves by an exception (math.pow's OverflowError) before
\* calling anything.
HandleRaised(press, last) ==
    [press |-> press, last |-> last, calls |-> <<>>, update |-> FALSE,
     raised |-> TRUE]

\* math.pow(1.2, e) raises OverflowError where 1.2^e exceeds the largest
\* double, that is for e > 3893.
MaxExp12 == 3893

\* delta = flags // 120
WheelDelta(flags) == flags \div 120

\* The host's decoding of the wheel delta, which the comments of the wheel
\* branch refer to (cv::getMouseWheelDelta): the signed high 16 bits of the
\* flags.  The host reports 120 per notch, and the formula the branch quotes,
\* pow(1.2, -getMouseWheelDelta(flags) / 120.), takes the notch count.
GetMouseWheelDelta(flags) == flags \div 65536
WheelNotches(flags) == GetMouseWheelDelta(flags) \div 120

\* delta_pix = outer_point - _lastPosPix
DeltaPix(last, mouseEvent) ==
    <<outerPoint(mouseEvent)[1] - last[1], outerPoint(mouseEvent)[2] - last[2]>>

\* Mutant of MovePan: the delta is taken from the press position.
MovePan_DeltaFromPress(press, last, mouseEvent) ==
    HandleResult(press, outerPoint(mouseEvent),
                 <<CallPan(mouseEvent.renderSize, DeltaPix(press, mouseEvent))>>, TRUE)

\* Mutant of MovePan: the pan is made but _lastPosPix is not advanced.
MovePan_LastKept(press, last, mouseEvent) ==
    HandleResult(press, last,
                 <<CallPan(mouseEvent.renderSize, DeltaPix(last, mouseEvent))>>, TRUE)

\* The EVENT_MOUSEMOVE branch with EVENT_FLAG_MBUTTON set: pan.
MovePan(press, last, mouseEvent) ==
    HandleResult(press, outerPoint(mouseEvent),
                 <<CallPan(mouseEvent.renderSize, DeltaPix(last, mouseEvent))>>, TRUE)

\* Mutant of MoveZoom: the zoom is made but _lastPosPix is not advanced.
MoveZoom_LastKept(press, last, mouseEvent) ==
    LET delta_pix == DeltaPix(last, mouseEvent)
        scale_x == Pow("2.", -delta_pix[1], 100)
        scale_y == Pow("2.", delta_pix[2], 100)
    IN  HandleResult(press, last,
                     <<CallZoom(mouseEvent.renderSize, press, scale_x, scale_y)>>, TRUE)

\* Mutant of MoveZoom: the zoom is anchored at the current point.
MoveZoom_AnchorCurrent(press, last, mouseEvent) ==
    LET delta_pix == DeltaPix(last, mouseEvent)
        scale_x == Pow("2.", -delta_pix[1], 100)
        scale_y == Pow("2.", delta_pix[2], 100)
    IN  HandleResult(press, outerPoint(mouseEvent),
                     <<CallZoom(mouseEvent.renderSize, outerPoint(mouseEvent),
                                scale_x, scale_y)>>, TRUE)

\* The EVENT_MOUSEMOVE branch with EVENT_FLAG_RBUTTON set (and not MBUTTON):
\* zoom about the press position.
MoveZoom(press, last, mouseEvent) ==
    LET delta_pix == DeltaPix(last, mouseEvent)
        scale_x == Pow("2.", -delta_pix[1], 100)
        scale_y == Pow("2.", delta_pix[2], 100)
    IN  HandleResult(press, outerPoint(mouseEvent),
                     <<CallZoom(mouseEvent.renderSize, press, scale_x, scale_y)>>, TRUE)

\* Mutant of HandleMove: the RBUTTON flag is tested before the MBUTTON flag.
HandleMove_RightFirst(press, last, mouseEvent) ==
    IF HasFlag(mouseEvent.flags, EVENT_FLAG_RBUTTON)
    THEN MoveZoom(press, last, mouseEvent)
    ELSE IF HasFlag(mouseEvent.flags, EVENT_FLAG_MBUTTON)
    THEN MovePan(press, last, mouseEvent)
    ELSE HandleResult(press, last, <<>>, FALSE)

\* Mutant of HandleMove: a Move with neither button flag records its
\* position in _lastPosPix.
HandleMove_PlainMoveTracks(press, last, mouseEvent) ==
    IF HasFlag(mouseEvent.flags, EVENT_FLAG_MBUTTON)
    THEN MovePan(press, last, mouseEvent)
    ELSE IF HasFlag(mouseEvent.flags, EVENT_FLAG_RBUTTON)
    THEN MoveZoom(press, last, mouseEvent)
    ELSE HandleResult(press, outerPoint(mouseEvent), <<>>, FALSE)

\* The EVENT_MOUSEMOVE branch.
HandleMove(press, last, mouseEvent) ==
    IF HasFlag(mouseEvent.flags, EVENT_FLAG_MBUTTON)
    THEN MovePan(press, last, mouseEvent)
    ELSE IF HasFlag(mouseEvent.flags, EVENT_FLAG_RBUTTON)
    THEN MoveZoom(press, last, mouseEvent)
    ELSE HandleResult(press, last, <<>>, FALSE)

\* Mutant of HandleDoubleClick: only the x axis is autoscaled.
HandleDoubleClick_XOnly(press, last, mouseEvent) ==
    HandleResult(press, last, <<CallSetXLimAuto>>, TRUE)

\* The EVENT_RBUTTONDBLCLK branch: autoscale both axes.
HandleDoubleClick(press, last, mouseEvent) ==
    HandleResult(press, last, <<CallSetXLimAuto, CallSetYLimAuto>>, TRUE)

\* The EVENT_MOUSEWHEEL branch.
HandleWheel(press, last, mouseEvent) ==
    LET delta == WheelDelta(mouseEvent.flags)
        scale == Pow("1.2", -delta, 1)
    IN  IF -delta > MaxExp12
        THEN HandleRaised(press, last)
        ELSE HandleResult(press, last,
                          <<CallZoom(mouseEvent.renderSize, outerPoint(mouseEvent),
                                     scale, scale)>>,
                          TRUE)

\* Mutant of HandlePress: the press position is recorded, _lastPosPix is not.
HandlePress_PressOnly(press, last, mouseEvent) ==
    HandleResult(outerPoint(mouseEvent), last, <<>>, TRUE)

\* The EVENT_MBUTTONDOWN / EVENT_RBUTTONDOWN branch.
HandlePress(press, last, mouseEvent) ==
    HandleResult(outerPoint(mouseEvent), outerPoint(mouseEvent), <<>>, TRUE)

handle_event(press, last, mouseEvent) ==
    IF mouseEvent.event = EVENT_MBUTTONDOWN \/ mouseEvent.event = EVENT_RBUTTONDOWN
    THEN HandlePress(press, last, mouseEvent)
    ELSE IF mouseEvent.event = EVENT_MOUSEMOVE
    THEN HandleMove(press, last, mouseEvent)
    ELSE IF mouseEvent.event = EVENT_RBUTTONDBLCLK
    THEN HandleDoubleClick(press, last, mouseEvent)
    ELSE IF mouseEvent.event = EVENT_MOUSEWHEEL
    THEN HandleWheel(press, last, mouseEvent)
    ELSE HandleResult(press, last, <<>>, FALSE)

(***************************************************************************)
(* MouseAdapter.mouseEvent: the dispatcher.  handlerSet says whether a     *)
(* user handler is installed and userResult is what it returns when        *)
(* called.  The result carries the built-in handler's state changes, the   *)
(* calls in the order made and the returned flag.                          *)
(***************************************************************************)
DispatchResult(builtin, calls, update_builtin, update_user) ==
    [press |-> builtin.press, last |-> builtin.last, calls |-> calls,
     update_builtin |-> update_builtin, update_user |-> update_user,
     update |-> (update_builtin \/ update_user), raised |-> FALSE]

\* The built-in handler's exception leaves the dispatcher too: the user
\* handler is not reached and nothing is returned.
DispatchRaised(builtin) ==
    [press |-> builtin.press, last |-> builtin.last, calls |-> builtin.calls,
     update_builtin |-> FALSE, update_user |-> FALSE, update |-> FALSE,
     raised |-> TRUE]

AdapterMouseEvent(press, last, handlerSet, userResult, mouseEvent) ==
    LET builtin == handle_event(press, last, mouseEvent)
    IN  IF builtin.raised
        THEN DispatchRaised(builtin)
        ELSE IF handlerSet
        THEN DispatchResult(builtin, builtin.calls \o <<CallUser(mouseEvent)>>,
                            builtin.update, userResult)
        ELSE DispatchResult(builtin, builtin.calls, builtin.update, FALSE)

(***************************************************************************)
(* State.                                                                  *)
(*   WINDOW_MAP        the registry _WINDOW_MAP: name -> Window object,    *)
(*                     0 where the name has no entry                       *)
(*   hostWindows       the host's named windows: Gone(..) where the host   *)
(*                     has no window of the name, else the window's        *)
(*                     client-rect size and the Window object whose        *)
(*                     namedWindow call created it                         *)
(*   objState          per Window object: "none" (not constructed),        *)
(*                     "live", "del" (in __del__, entry removed, host      *)
(*                     destroy not yet asked), "dead" (__del__ finished)   *)
(*   windowName, mat, pressPosPix, lastPosPix, handlerSet                  *)
(*                     the fields of each Window and of its MouseAdapter;  *)
(*                     mat is the size (cols, rows) of the rendered image  *)
(*   wk                the running waitKey_static call, if any: its        *)
(*                     arguments and whether its loop is in its first      *)
(*                     iteration                                           *)
(*   elapsed           milliseconds since wk entered its loop, saturating  *)
(*   log               what the operation that has just run did; Idle once *)
(*                     it has returned                                     *)
(*   drag              history, per Window: whether a middle-button drag   *)
(*                     is under way, the point of its ButtonDown and the   *)
(*                     sum of the deltas passed to pan since               *)
(***************************************************************************)
VARIABLES WINDOW_MAP, hostWindows, objState, windowName, mat,
          pressPosPix, lastPosPix, handlerSet, wk, elapsed, log, drag

vars == <<WINDOW_MAP, hostWindows, objState, windowName, mat,
          pressPosPix, lastPosPix, handlerSet, wk, elapsed, log, drag>>

\* No host window of the name: never created ("none"), closed by the user
\* ("user") or destroyed by a Window's __del__ ("del").
Gone(by) == [exists |-> FALSE, by |-> by]
NoWin == Gone("none")
HostWin(owner, size) == [exists |-> TRUE, owner |-> owner, size |-> size]
WkIdle == [pc |-> "idle"]
\* No operation has run since the last one returned.
Idle == [op |-> "idle"]
\* No middle-button drag is under way.
NoDrag == [on |-> FALSE, start |-> <<0, 0>>, sum |-> <<0, 0>>]

Init ==
    /\ WINDOW_MAP = [n \in Names |-> 0]
    /\ hostWindows = [n \in Names |-> NoWin]
    /\ objState = [o \in Objs |-> "none"]
    /\ windowName = [o \in Objs |-> "W"]
    /\ mat = [o \in Objs |-> <<0, 0>>]
    /\ pressPosPix = [o \in Objs |-> <<0, 0>>]
    /\ lastPosPix = [o \in Objs |-> <<0, 0>>]
    /\ handlerSet = [o \in Objs |-> FALSE]
    /\ wk = WkIdle
    /\ elapsed = 0
    /\ log = Idle
    /\ drag = [o \in Objs |-> NoDrag]

(***************************************************************************)
(* Window.valid: the host has a window of this Window's name.  The query   *)
(* is by name, whichever Window object created the host window.            *)
(***************************************************************************)
\* cv2.getWindowProperty(name, WND_PROP_AUTOSIZE): what the host may answer.
\* A window created with WINDOW_NORMAL reports 0; for a name without a
\* window the host reports -1 or raises cv2.error, depending on the backend
\* and on how far the destruction has got.
GetWindowProperty(n) ==
    IF hostWindows[n].exists
    THEN {[raised |-> FALSE, value |-> 0]}
    ELSE {[raised |-> FALSE, value |-> -1], [raised |-> TRUE, value |-> 0]}

\* What valid() returns on an answer of the host: the comparison >= 0, and
\* False from the except clause.
ValidOf(r) == IF r.raised THEN FALSE ELSE r.value >= 0

valid(o) == \A r \in GetWindowProperty(windowName[o]) : ValidOf(r)

\* Mutant of update: the valid() check is missing, so the client rect of a
\* window that is gone is queried.
update_NoValidCheck(o, m) ==
    IF ~hostWindows[windowName[o]].exists
    THEN [mat |-> m, calls |-> <<CallRect(windowName[o])>>]
    ELSE LET size == hostWindows[windowName[o]].size
         IN  [mat |-> size,
              calls |-> <<CallRect(windowName[o]), CallRender(size)>>
                        \o (IF size[1] * size[2] > 0
                            THEN <<CallImshow(windowName[o], size)>>
                            ELSE <<>>)]

\* Window.update with the cached image size m: the new image size and the
\* calls made.  render(cols, rows) returns an image of that size; it is shown
\* if it is not empty.
update(o, m) ==
    IF ~valid(o)
    THEN [mat |-> m, calls |-> <<>>]
    ELSE LET size == hostWindows[windowName[o]].size
         IN  [mat |-> size,
              calls |-> <<CallRect(windowName[o]), CallRender(size)>>
                        \o (IF size[1] * size[2] > 0
                            THEN <<CallImshow(windowName[o], size)>>
                            ELSE <<>>)]

\* Mutant of update_size: update() is called whether or not the sizes differ.
update_size_AlwaysUpdate(o, m) ==
    IF ~valid(o)
    THEN [mat |-> m, calls |-> <<>>]
    ELSE [mat |-> update(o, m).mat,
          calls |-> <<CallRect(windowName[o])>> \o update(o, m).calls]

\* Window._update_size
update_size(o, m) ==
    IF ~valid(o)
    THEN [mat |-> m, calls |-> <<>>]
    ELSE LET size == hostWindows[windowName[o]].size
         IN  IF size[1] # m[1] \/ size[2] # m[2]
             THEN [mat |-> update(o, m).mat,
                   calls |-> <<CallRect(windowName[o])>> \o update(o, m).calls]
             ELSE [mat |-> m, calls |-> <<CallRect(windowName[o])>>]

\* No __del__ is between its two steps and no waitKey loop is running: the
\* caller's code may run.
CallerRuns ==
    log = Idle /\ wk.pc = "idle" /\ \A o \in Objs : objState[o] # "del"

(***************************************************************************)
(* Window.__init__(windowName, axes, cols, rows) on the fresh object o.    *)
(* A host window of that name, if any, is destroyed; a new one is created  *)
(* at cols x rows, the axes are rendered at that size and shown, the       *)
(* callback is registered with the name as its token, and the registry     *)
(* entry of the name is set to o.                                          *)
(***************************************************************************)
Construct(o, n, size) ==
    /\ CallerRuns
    /\ objState[o] = "none"
    /\ \A p \in Objs : p < o => objState[p] # "none"
    /\ size[1] >= 1 /\ size[2] >= 1
    /\ objState' = [objState EXCEPT ![o] = "live"]
    /\ windowName' = [windowName EXCEPT ![o] = n]
    /\ pressPosPix' = [pressPosPix EXCEPT ![o] = <<0, 0>>]
    /\ lastPosPix' = [lastPosPix EXCEPT ![o] = <<0, 0>>]
    /\ handlerSet' = [handlerSet EXCEPT ![o] = FALSE]
    /\ drag' = [drag EXCEPT ![o] = NoDrag]
    /\ hostWindows' = [hostWindows EXCEPT ![n] = HostWin(o, size)]
    /\ mat' = [mat EXCEPT ![o] = size]
    /\ WINDOW_MAP' = [WINDOW_MAP EXCEPT ![n] = o]
    /\ log' = [op |-> "construct", tok |-> n, obj |-> o,
               destroyed |-> hostWindows[n].exists,
               calls |-> <<CallRender(size), CallImshow(n, size)>>]
    /\ UNCHANGED <<wk, elapsed>>

\* Mutant of DelRemove: the teardown goes on to the host destroy call with
\* the registry entry still in place.
DelRemove_EntryKept(o) ==
    /\ CallerRuns
    /\ objState[o] = "live"
    /\ objState' = [objState EXCEPT ![o] = "del"]
    /\ log' = [op |-> "del_remove", tok |-> windowName[o], obj |-> o, removed |-> 0]
    /\ UNCHANGED <<WINDOW_MAP, hostWindows, windowName, mat, pressPosPix,
                   lastPosPix, drag, handlerSet, wk, elapsed>>

(***************************************************************************)
(* Window.__del__ on o, first step: the registry entry of o's name is      *)
(* deleted if the name has one.                                            *)
(***************************************************************************)
DelRemove(o) ==
    /\ CallerRuns
    /\ objState[o] = "live"
    /\ objState' = [objState EXCEPT ![o] = "del"]
    /\ WINDOW_MAP' = [WINDOW_MAP EXCEPT ![windowName[o]] = 0]
    /\ log' = [op |-> "del_remove", tok |-> windowName[o], obj |-> o,
               removed |-> WINDOW_MAP[windowName[o]]]
    /\ UNCHANGED <<hostWindows, windowName, mat, pressPosPix, lastPosPix, drag,
                   handlerSet, wk, elapsed>>

(***************************************************************************)
(* Window.__del__ on o, second step: if valid(), the host window of o's    *)
(* name is destroyed.                                                      *)
(***************************************************************************)
DelDestroy(o) ==
    /\ log = Idle
    /\ objState[o] = "del"
    /\ objState' = [objState EXCEPT ![o] = "dead"]
    /\ hostWindows' = IF valid(o)
                      THEN [hostWindows EXCEPT ![windowName[o]] = Gone("del")]
                      ELSE hostWindows
    /\ log' = [op |-> "del_destroy", tok |-> windowName[o], obj |-> o,
               destroyed |-> valid(o)]
    /\ UNCHANGED <<WINDOW_MAP, windowName, mat, pressPosPix, lastPosPix, drag,
                   handlerSet, wk, elapsed>>

\* Window.setMouseEventHandler: h is TRUE for a handler, FALSE for None.
SetMouseEventHandler(o, h) ==
    /\ CallerRuns
    /\ objState[o] = "live"
    /\ handlerSet' = [handlerSet EXCEPT ![o] = h]
    /\ UNCHANGED <<WINDOW_MAP, hostWindows, objState, windowName, mat,
                   pressPosPix, lastPosPix, drag, wk, elapsed, log>>

(***************************************************************************)
(* Window.update(), called by the owner of the Window object o.            *)
(***************************************************************************)
Update(o) ==
    /\ CallerRuns
    /\ objState[o] = "live"
    /\ mat' = [mat EXCEPT ![o] = update(o, mat[o]).mat]
    /\ log' = [op |-> "update", obj |-> o, calls |-> update(o, mat[o]).calls]
    /\ UNCHANGED <<WINDOW_MAP, hostWindows, objState, windowName, pressPosPix,
                   lastPosPix, drag, handlerSet, wk, elapsed>>

(***************************************************************************)
(* The environment: the window manager resizes or closes a host window.    *)
(***************************************************************************)
HostResize(n, size) ==
    /\ log = Idle
    /\ hostWindows[n].exists
    /\ hostWindows[n].size # size
    /\ hostWindows' = [hostWindows EXCEPT ![n].size = size]
    /\ UNCHANGED <<WINDOW_MAP, objState, windowName, mat, pressPosPix,
                   lastPosPix, drag, handlerSet, wk, elapsed, log>>

HostClose(n) ==
    /\ log = Idle
    /\ hostWindows[n].exists
    /\ hostWindows' = [hostWindows EXCEPT ![n] = Gone("user")]
    /\ UNCHANGED <<WINDOW_MAP, objState, windowName, mat, pressPosPix,
                   lastPosPix, drag, handlerSet, wk, elapsed, log>>

(***************************************************************************)
(* _cvplot_mouse_callback(event, x, y, flags, param) with param = n.       *)
(* userResult is what the user handler returns if it is called.  An        *)
(* exception of the dispatch leaves the callback before window.update().   *)

RECURSIVE PanSum(_)
\* The component-wise sum of the deltas of the pan calls among calls.
PanSum(calls) ==
    IF calls = <<>> THEN <<0, 0>>
    ELSE LET rest == PanSum(Tail(calls))
             c == Head(calls)
         IN  IF c.fn = "pan"
             THEN <<c.delta[1] + rest[1], c.delta[2] + rest[2]>>
             ELSE rest

\* The drag history after the dispatch of mouseEvent has made calls.  A
\* ButtonDown(Middle) starts a drag at its point; a ButtonDown(Right) and a
\* Move that zooms end it; during a drag the deltas passed to pan add up.
Dragged(dr, mouseEvent, calls) ==
    IF mouseEvent.event = EVENT_MBUTTONDOWN
    THEN [on |-> TRUE, start |-> outerPoint(mouseEvent), sum |-> <<0, 0>>]
    ELSE IF mouseEvent.event = EVENT_RBUTTONDOWN
            \/ (mouseEvent.event = EVENT_MOUSEMOVE
                  /\ ~HasFlag(mouseEvent.flags, EVENT_FLAG_MBUTTON)
                  /\ HasFlag(mouseEvent.flags, EVENT_FLAG_RBUTTON))
    THEN NoDrag
    ELSE IF dr.on
    THEN [dr EXCEPT !.sum = <<dr.sum[1] + PanSum(calls)[1],
                             dr.sum[2] + PanSum(calls)[2]>>]
    ELSE dr

(***************************************************************************)
CallbackFound(n, o, event, x, y, flags, userResult) ==
    LET resized == update_size(o, mat[o])
        mouse_event == MouseEvent(resized.mat, event, x, y, flags)
        d == AdapterMouseEvent(pressPosPix[o], lastPosPix[o], handlerSet[o],
                               userResult, mouse_event)
        rendered == IF d.update THEN update(o, resized.mat)
                                ELSE [mat |-> resized.mat, calls |-> <<>>]
    IN  /\ mat' = [mat EXCEPT ![o] = rendered.mat]
        /\ pressPosPix' = [pressPosPix EXCEPT ![o] = d.press]
        /\ lastPosPix' = [lastPosPix EXCEPT ![o] = d.last]
        /\ drag' = [drag EXCEPT ![o] = Dragged(drag[o], mouse_event, d.calls)]
        /\ log' = [op |-> "callback", tok |-> n, found |-> TRUE, obj |-> o,
                   ev |-> mouse_event, resize |-> resized.calls, calls |-> d.calls,
                   update_builtin |-> d.update_builtin, update_user |-> d.update_user,
                   upd |-> d.update, raised |-> d.raised, after |-> rendered.calls]

Callback(n, event, x, y, flags, userResult) ==
    /\ log = Idle
    /\ IF WINDOW_MAP[n] # 0
       THEN CallbackFound(n, WINDOW_MAP[n], event, x, y, flags, userResult)
       ELSE /\ log' = [op |-> "callback", tok |-> n, found |-> FALSE,
                       resize |-> <<>>, calls |-> <<>>, after |-> <<>>]
            /\ UNCHANGED <<mat, pressPosPix, lastPosPix, drag>>
    /\ UNCHANGED <<WINDOW_MAP, hostWindows, objState, windowName, handlerSet,
                   wk, elapsed>>

(***************************************************************************)
(* Window.waitKey_static(windows, delay).                                  *)
(***************************************************************************)
RECURSIVE SortedSeq(_)
\* The objects of S as a list, in the order of construction.
SortedSeq(S) ==
    IF S = {} THEN <<>>
    ELSE LET m == CHOOSE a \in S : \A b \in S : a <= b
         IN  <<m>> \o SortedSeq(S \ {m})

Range(ws) == {ws[i] : i \in 1..Len(ws)}

RECURSIVE UpdateSizeCalls(_)
\* for window in windows: window._update_size()  -- the calls, in order.
UpdateSizeCalls(ws) ==
    IF ws = <<>> THEN <<>>
    ELSE <<[fn |-> "_update_size", obj |-> Head(ws)]>>
            \o update_size(Head(ws), mat[Head(ws)]).calls
            \o UpdateSizeCalls(Tail(ws))

\* The call: end_time is fixed and the loop is entered.
WaitKeyCall(ws, delay) ==
    /\ CallerRuns
    /\ \A i \in 1..Len(ws) : objState[ws[i]] = "live"
    /\ wk' = [pc |-> "loop", windows |-> ws, delay |-> delay, first |-> TRUE]
    /\ elapsed' = 0
    /\ UNCHANGED <<WINDOW_MAP, hostWindows, objState, windowName, mat,
                   pressPosPix, lastPosPix, drag, handlerSet, log>>

WaitKeyReturn(polled, key) ==
    /\ wk' = WkIdle
    /\ log' = [op |-> "waitKey_return", windows |-> wk.windows, delay |-> wk.delay,
               first |-> wk.first, polled |-> polled, key |-> key, calls |-> <<>>]
    /\ UNCHANGED mat

\* Mutant of WaitKeyContinue: the loop goes round without the _update_size
\* calls.
WaitKeyContinue_NoUpdateSize(polled) ==
    /\ mat' = mat
    /\ log' = [op |-> "waitKey_continue", windows |-> wk.windows, delay |-> wk.delay,
               first |-> wk.first, polled |-> polled, calls |-> <<>>]
    /\ wk' = [wk EXCEPT !.first = FALSE]

WaitKeyContinue(polled) ==
    /\ mat' = [o \in Objs |-> IF o \in Range(wk.windows)
                              THEN update_size(o, mat[o]).mat ELSE mat[o]]
    /\ log' = [op |-> "waitKey_continue", windows |-> wk.windows, delay |-> wk.delay,
               first |-> wk.first, polled |-> polled,
               calls |-> UpdateSizeCalls(wk.windows)]
    /\ wk' = [wk EXCEPT !.first = FALSE]

\* Mutant of WaitKeyIteration: the timeout check is missing.
WaitKeyIteration_NoTimeout(key, dt) ==
    /\ log = Idle
    /\ wk.pc = "loop"
    /\ elapsed' = IF elapsed + dt > MaxDelay THEN MaxDelay ELSE elapsed + dt
    /\ IF key # NoKey
       THEN WaitKeyReturn(key, key)
       ELSE IF \A w \in Range(wk.windows) : ~valid(w)
       THEN WaitKeyReturn(key, NoKey)
       ELSE WaitKeyContinue(key)
    /\ UNCHANGED <<WINDOW_MAP, hostWindows, objState, windowName,
                   pressPosPix, lastPosPix, drag, handlerSet>>

\* Mutant of WaitKeyIteration: the check that every window is invalid is
\* missing.
WaitKeyIteration_NoClosedCheck(key, dt) ==
    /\ log = Idle
    /\ wk.pc = "loop"
    /\ elapsed' = IF elapsed + dt > MaxDelay THEN MaxDelay ELSE elapsed + dt
    /\ IF key # NoKey
       THEN WaitKeyReturn(key, key)
       ELSE IF wk.delay > 0 /\ elapsed' >= wk.delay
       THEN WaitKeyReturn(key, NoKey)
       ELSE WaitKeyContinue(key)
    /\ UNCHANGED <<WINDOW_MAP, hostWindows, objState, windowName,
                   pressPosPix, lastPosPix, drag, handlerSet>>

\* Mutant of WaitKeyIteration: the timeout is checked before the polled key.
WaitKeyIteration_TimeoutFirst(key, dt) ==
    /\ log = Idle
    /\ wk.pc = "loop"
    /\ elapsed' = IF elapsed + dt > MaxDelay THEN MaxDelay ELSE elapsed + dt
    /\ IF wk.delay > 0 /\ elapsed' >= wk.delay
       THEN WaitKeyReturn(key, NoKey)
       ELSE IF key # NoKey
       THEN WaitKeyReturn(key, key)
       ELSE IF \A w \in Range(wk.windows) : ~valid(w)
       THEN WaitKeyReturn(key, NoKey)
       ELSE WaitKeyContinue(key)
    /\ UNCHANGED <<WINDOW_MAP, hostWindows, objState, windowName,
                   pressPosPix, lastPosPix, drag, handlerSet>>

\* One iteration of the loop: the key poll reports  key  (NoKey for none)
\* and takes dt milliseconds.
WaitKeyIteration(key, dt) ==
    /\ log = Idle
    /\ wk.pc = "loop"
    /\ elapsed' = IF elapsed + dt > MaxDelay THEN MaxDelay ELSE elapsed + dt
    /\ IF key # NoKey
       THEN WaitKeyReturn(key, key)
       ELSE IF wk.delay > 0 /\ elapsed' >= wk.delay
       THEN WaitKeyReturn(key, NoKey)
       ELSE IF \A w \in Range(wk.windows) : ~valid(w)
       THEN WaitKeyReturn(key, NoKey)
       ELSE WaitKeyContinue(key)
    /\ UNCHANGED <<WINDOW_MAP, hostWindows, objState, windowName,
                   pressPosPix, lastPosPix, drag, handlerSet>>

\* The operation that has just run returns to its caller, or to the host's
\* event loop: its record is dropped.
Resume ==
    /\ log # Idle
    /\ log' = Idle
    /\ UNCHANGED <<WINDOW_MAP, hostWindows, objState, windowName, mat,
                   pressPosPix, lastPosPix, drag, handlerSet, wk, elapsed>>

(***************************************************************************)
(* The specification.                                                      *)
(***************************************************************************)
ConstructAny == \E o \in Objs, n \in Names, size \in Sizes : Construct(o, n, size)
DelRemoveAny == \E o \in Objs : DelRemove(o)
DelDestroyAny == \E o \in Objs : DelDestroy(o)
UpdateAny == \E o \in Objs : Update(o)
SetMouseEventHandlerAny == \E o \in Objs, h \in BOOLEAN : SetMouseEventHandler(o, h)
HostResizeAny == \E n \in Names, size \in Sizes : HostResize(n, size)
HostCloseAny == \E n \in Names : HostClose(n)
\* What the user handler of the window registered under n may return; it is
\* consulted only if a handler is installed.
UserResults(n) ==
    IF WINDOW_MAP[n] # 0 /\ handlerSet[WINDOW_MAP[n]] THEN BOOLEAN ELSE {FALSE}

\* Pointer events of every kind, button-flag combination and position,
\* delivered to the window named "W".
ButtonCallback ==
    \E ef \in ButtonInputs, pt \in Points, userResult \in UserResults("W") :
        Callback("W", ef[1], pt[1], pt[2], ef[2], userResult)
WheelCallback ==
    \E pt \in Points, flags \in WheelFlags, userResult \in UserResults("W") :
        Callback("W", EVENT_MOUSEWHEEL, pt[1], pt[2], flags, userResult)
\* A few pointer events delivered with any name as the token.
PointerCallback ==
    \E n \in Names, ef \in PointerInputs, pt \in PointerPoints :
        Callback(n, ef[1], pt[1], pt[2], ef[2], FALSE)
WaitKeyCallAny ==
    \E S \in SUBSET Objs, delay \in Delays : WaitKeyCall(SortedSeq(S), delay)
WaitKeyIterationAny ==
    \E key \in Keys \cup {NoKey}, dt \in {0, 1} : WaitKeyIteration(key, dt)

\* Window lifecycle: constructions, teardowns, host events and pointer
\* callbacks in any order.
Next ==
    \/ ConstructAny
    \/ DelRemoveAny
    \/ DelDestroyAny
    \/ UpdateAny
    \/ HostResizeAny
    \/ HostCloseAny
    \/ PointerCallback
    \/ Resume

Spec == Init /\ [][Next]_vars

\* The wait loop over windows that the window manager resizes and closes.
NextWait ==
    \/ ConstructAny
    \/ HostResizeAny
    \/ HostCloseAny
    \/ WaitKeyCallAny
    \/ WaitKeyIterationAny
    \/ Resume

SpecWait == Init /\ [][NextWait]_vars

\* An iteration of the wait loop during which the clock advances.
Tick == \E key \in Keys \cup {NoKey} : WaitKeyIteration(key, 1)

\* The wait loop under a clock that advances: every operation returns, and
\* of the iterations of a loop that keeps running, infinitely many take a
\* millisecond or more (cv2.waitKey(1) waits for one).
SpecWaitFair ==
    Init /\ [][NextWait]_vars /\ WF_vars(Resume) /\ SF_vars(Tick)

\* The state after  Window("W", axes, 1, 1).
InitAdapter ==
    /\ WINDOW_MAP = [n \in Names |-> IF n = "W" THEN 1 ELSE 0]
    /\ hostWindows = [n \in Names |-> IF n = "W" THEN HostWin(1, <<1, 1>>) ELSE NoWin]
    /\ objState = [o \in Objs |-> IF o = 1 THEN "live" ELSE "none"]
    /\ windowName = [o \in Objs |-> "W"]
    /\ mat = [o \in Objs |-> IF o = 1 THEN <<1, 1>> ELSE <<0, 0>>]
    /\ pressPosPix = [o \in Objs |-> <<0, 0>>]
    /\ lastPosPix = [o \in Objs |-> <<0, 0>>]
    /\ handlerSet = [o \in Objs |-> FALSE]
    /\ wk = WkIdle
    /\ elapsed = 0
    /\ log = Idle
    /\ drag = [o \in Objs |-> NoDrag]

\* The MouseAdapter of one window under every pointer event.
NextAdapter ==
    \/ SetMouseEventHandlerAny
    \/ ButtonCallback
    \/ WheelCallback
    \/ Resume

SpecAdapter == InitAdapter /\ [][NextAdapter]_vars

(***************************************************************************)
(* Claims about the registry and the Window lifecycle (Spec).              *)
(***************************************************************************)

\* o2 is the latest Window constructed under its name, it has not been
\* destroyed itself, and o1 is an earlier Window of the same name.
Replaced(o1, o2) ==
    /\ o1 < o2
    /\ objState[o1] # "none"
    /\ objState[o2] = "live"
    /\ windowName[o1] = windowName[o2]
    /\ \A o3 \in Objs :
          o3 > o2 /\ objState[o3] # "none" => windowName[o3] # windowName[o2]

\* C1 (as claimed): right after a second Window is constructed under the name
\* of a first one, and likewise after the replaced first Window is torn down,
\* the registry entry of the name is the second Window, the host window of
\* the name is the one the second Window created, and the first Window
\* reports not alive.
C1_SecondWindowStaysRegistered ==
    \A o1, o2 \in Objs :
        /\ Replaced(o1, o2)
        /\ \/ log.op = "construct" /\ log.obj = o2
           \/ log.op = "del_destroy" /\ log.obj = o1
        => /\ WINDOW_MAP[windowName[o2]] = o2
           /\ hostWindows[windowName[o2]].exists
           /\ hostWindows[windowName[o2]].owner = o2
           /\ ~valid(o1)

\* C2 (as claimed): the registry maps a name to a Window object if and only
\* if that object has been constructed and its teardown has not begun.
C2_RegisteredIffConstructedAndNotDestroyed ==
    /\ \A o \in Objs : objState[o] = "live" => WINDOW_MAP[windowName[o]] = o
    /\ \A n \in Names :
          WINDOW_MAP[n] # 0 =>
              objState[WINDOW_MAP[n]] = "live" /\ windowName[WINDOW_MAP[n]] = n

\* A teardown is destroying the host window of name n (its __del__ is between
\* the registry removal and the host destroy call), or has destroyed it and
\* no window of the name has been created since.
TornDown(n) ==
    \/ \E o \in Objs : objState[o] = "del" /\ windowName[o] = n
    \/ ~hostWindows[n].exists /\ hostWindows[n].by = "del"

\* C3: whenever a teardown is destroying or has destroyed the host window of
\* a name, the registry has no entry for the name, and a pointer callback
\* carrying the name finds no Window: it dispatches nothing, renders nothing
\* and changes no Window.
C3_RemovedBeforeHostDestroy ==
    [][\A n \in Names :
          TornDown(n)' =>
              /\ WINDOW_MAP'[n] = 0
              /\ (log'.op = "callback" /\ log'.tok = n) =>
                    /\ ~log'.found
                    /\ log'.resize = <<>> /\ log'.calls = <<>> /\ log'.after = <<>>
                    /\ UNCHANGED <<mat, pressPosPix, lastPosPix>>]_vars

\* C3 witness: a callback carrying the name of a window in teardown fired
\* while the host window still existed, and found no registry entry.
C3_Witness ==
    /\ log.op = "callback" /\ ~log.found
    /\ hostWindows[log.tok].exists
    /\ \E o \in Objs : objState[o] = "del" /\ windowName[o] = log.tok

(***************************************************************************)
(* Claims about the MouseAdapter (SpecAdapter).                            *)
(***************************************************************************)

\* The last operation was a pointer callback that found its Window.
Dispatched == log.op = "callback" /\ log.found

\* The calls a dispatch made on the Axes, and those to the user handler.
AxesCalls(calls) == SelectSeq(calls, LAMBDA c : c.fn # "mouseEventHandler")
UserCalls(calls) == SelectSeq(calls, LAMBDA c : c.fn = "mouseEventHandler")

\* C4 (as claimed): a dispatch with a user handler set calls the user handler exactly
\* once, with the dispatched event, after every call of the built-in handler
\* and whatever the built-in handler returned; the result is the OR of the
\* two results.  With no user handler set nothing but the built-in handler
\* runs and the result is the built-in result.
C4_UserHandlerAlwaysRuns ==
    Dispatched =>
        IF handlerSet[log.obj]
        THEN /\ UserCalls(log.calls) = <<CallUser(log.ev)>>
             /\ log.calls[Len(log.calls)] = CallUser(log.ev)
             /\ log.upd = (log.update_builtin \/ log.update_user)
        ELSE /\ UserCalls(log.calls) = <<>>
             /\ log.upd = log.update_builtin

IsPanMove(ev) == ev.event = EVENT_MOUSEMOVE /\ HasFlag(ev.flags, EVENT_FLAG_MBUTTON)
IsZoomMove(ev) ==
    /\ ev.event = EVENT_MOUSEMOVE
    /\ HasFlag(ev.flags, EVENT_FLAG_RBUTTON)
    /\ ~HasFlag(ev.flags, EVENT_FLAG_MBUTTON)
IsPress(ev) == ev.event \in {EVENT_MBUTTONDOWN, EVENT_RBUTTONDOWN}

\* C5: a Move with MBUTTON set, in any adapter state, pans exactly once by
\* outerPoint - _lastPosPix (as it was before), calls nothing else on the
\* Axes, moves _lastPosPix to the outer point, keeps _pressPosPix, and the
\* built-in handler returns true.
C5_MiddleMovePans ==
    [][(Dispatched' /\ IsPanMove(log'.ev)) =>
          LET o == log'.obj
              ev == log'.ev
          IN  /\ AxesCalls(log'.calls) =
                    <<CallPan(ev.renderSize,
                              <<ev.x - lastPosPix[o][1], ev.y - lastPosPix[o][2]>>)>>
              /\ lastPosPix'[o] = <<ev.x, ev.y>>
              /\ pressPosPix'[o] = pressPosPix[o]
              /\ log'.update_builtin]_vars

\* C5 witness: a pan by a non-zero delta in both coordinates with the right
\* button held too, away from the press position.
C5_Witness ==
    /\ Dispatched /\ IsPanMove(log.ev)
    /\ HasFlag(log.ev.flags, EVENT_FLAG_RBUTTON)
    /\ \E c \in Range(log.calls) : c.fn = "pan" /\ c.delta = <<1, -1>>
    /\ pressPosPix[log.obj] # lastPosPix[log.obj]

\* C6: a Move with RBUTTON set and MBUTTON not set zooms exactly once with
\* scaleX = 2^(-delta.x/100) and scaleY = 2^(delta.y/100), delta being
\* outerPoint - _lastPosPix (before), anchored at _pressPosPix; it calls
\* nothing else on the Axes, moves _lastPosPix to the outer point, keeps
\* _pressPosPix, and the built-in handler returns true.  _pressPosPix is
\* written by MBUTTONDOWN and RBUTTONDOWN events only, with the event's outer
\* point, so the anchor is the point of the most recent such press ((0, 0)
\* before the first one).
C6_RightMoveZoomsAboutPress ==
    [][/\ (Dispatched' /\ IsZoomMove(log'.ev)) =>
             LET o == log'.obj
                 ev == log'.ev
                 dx == ev.x - lastPosPix[o][1]
                 dy == ev.y - lastPosPix[o][2]
             IN  /\ AxesCalls(log'.calls) =
                       <<CallZoom(ev.renderSize, pressPosPix[o],
                                  Pow("2.", -dx, 100), Pow("2.", dy, 100))>>
                 /\ lastPosPix'[o] = <<ev.x, ev.y>>
                 /\ pressPosPix'[o] = pressPosPix[o]
                 /\ log'.update_builtin
       /\ (Dispatched' /\ IsPress(log'.ev)) =>
             pressPosPix'[log'.obj] = <<log'.ev.x, log'.ev.y>>
       /\ \A o \in Objs :
             pressPosPix'[o] # pressPosPix[o] =>
                 Dispatched' /\ log'.obj = o /\ IsPress(log'.ev)]_vars

\* C6 witness: a right-drag zoom whose anchor, a press position other than
\* (0, 0), differs from the current point, with a delta of (-1, 1).
C6_Witness ==
    /\ Dispatched /\ IsZoomMove(log.ev)
    /\ \E c \in Range(log.calls) :
          /\ c.fn = "zoom"
          /\ c.anchor # <<log.ev.x, log.ev.y>> /\ c.anchor # <<0, 0>>
          /\ c.scaleX = Pow("2.", 1, 100) /\ c.scaleY = Pow("2.", 1, 100)

\* C7 (as claimed): a Wheel event whose notch count, as the host decodes it
\* from the flags, is d zooms exactly once with scaleX = scaleY = 1.2^(-d),
\* anchored at the event's outer point; it keeps _pressPosPix and
\* _lastPosPix, and the built-in handler returns true.
C7_WheelZoomsByNotches ==
    [][(Dispatched' /\ log'.ev.event = EVENT_MOUSEWHEEL) =>
          LET o == log'.obj
              ev == log'.ev
              d == WheelNotches(ev.flags)
          IN  /\ AxesCalls(log'.calls) =
                    <<CallZoom(ev.renderSize, <<ev.x, ev.y>>,
                               Pow("1.2", -d, 1), Pow("1.2", -d, 1))>>
              /\ lastPosPix'[o] = lastPosPix[o]
              /\ pressPosPix'[o] = pressPosPix[o]
              /\ log'.update_builtin]_vars

\* C8: a DoubleClick(Right), in any adapter state and with any flags, calls
\* setXLimAuto and setYLimAuto once each and nothing else on the Axes, keeps
\* _pressPosPix and _lastPosPix, and the built-in handler returns true.
C8_RightDoubleClickAutoscales ==
    [][(Dispatched' /\ log'.ev.event = EVENT_RBUTTONDBLCLK) =>
          LET o == log'.obj
          IN  /\ Len(AxesCalls(log'.calls)) = 2
              /\ \E i \in 1..2 : AxesCalls(log'.calls)[i] = CallSetXLimAuto
              /\ \E i \in 1..2 : AxesCalls(log'.calls)[i] = CallSetYLimAuto
              /\ lastPosPix'[o] = lastPosPix[o]
              /\ pressPosPix'[o] = pressPosPix[o]
              /\ log'.update_builtin /\ log'.upd]_vars

\* C8 witness: a right double click with both drag buttons flagged, in a
\* state where a drag is under way (press and last positions differ).
C8_Witness ==
    /\ Dispatched /\ log.ev.event = EVENT_RBUTTONDBLCLK
    /\ log.ev.flags = 6
    /\ pressPosPix[log.obj] # lastPosPix[log.obj]
    /\ Len(log.calls) >= 2

(***************************************************************************)
(* Claims about the wait loop (SpecWait).                                  *)
(***************************************************************************)

\* The last operation was an iteration of the wait loop.
Iterated == log.op \in {"waitKey_return", "waitKey_continue"}

\* The timeout condition of the iteration just made: delay > 0 and the time
\* read after the poll has reached end_time.
TimeoutFired == log.delay > 0 /\ elapsed >= log.delay

AllInvalid(ws) == \A w \in Range(ws) : ~valid(w)

\* The iteration just made found none of its windows valid and no key.
QuietAndAllInvalid ==
    Iterated /\ log.polled = NoKey /\ ~TimeoutFired /\ AllInvalid(log.windows)

\* C9: an iteration whose key poll reports no key, whose timeout condition
\* does not fire and in which every listed window is invalid returns -1
\* without a call of _update_size or render and without touching any cached
\* image; so waitKey([], 0) with no key pressed returns -1 in its first
\* iteration.
C9_AllInvalidReturnsMinusOne ==
    [][/\ QuietAndAllInvalid' =>
             /\ log'.op = "waitKey_return"
             /\ log'.key = -1
             /\ log'.calls = <<>>
             /\ mat' = mat
             /\ wk'.pc = "idle"
       /\ (Iterated' /\ log'.first /\ log'.windows = <<>> /\ log'.delay = 0
             /\ log'.polled = NoKey) =>
             log'.op = "waitKey_return" /\ log'.key = -1]_vars

\* C9 witness: a wait over two windows, with a timeout that has not fired,
\* returned -1 on a poll without a key because both windows were invalid.
C9_Witness ==
    /\ log.op = "waitKey_return"
    /\ log.polled = NoKey /\ log.key = -1
    /\ Len(log.windows) = 2
    /\ log.delay > 0 /\ ~TimeoutFired
    /\ AllInvalid(log.windows)

\* C10: an iteration whose poll reports a key returns that key at once, with
\* no call of _update_size, also when the timeout has fired or every window
\* is invalid; and an iteration returns -1 only if its poll reported no key.
C10_PolledKeyReturnedFirst ==
    Iterated =>
        /\ log.polled # NoKey =>
              log.op = "waitKey_return" /\ log.key = log.polled /\ log.calls = <<>>
        /\ (log.op = "waitKey_return" /\ log.key = -1) => log.polled = NoKey

\* C10 witness: a key was returned by an iteration in which the timeout had
\* fired and every window of a non-empty list was invalid.
C10_Witness ==
    /\ log.op = "waitKey_return"
    /\ log.polled \in Keys /\ log.key = log.polled
    /\ TimeoutFired
    /\ log.windows # <<>> /\ AllInvalid(log.windows)

(***************************************************************************)
(* Claims about the end of the wait loop (SpecWaitFair).                   *)
(***************************************************************************)

\* C11: a wait with delay > 0 eventually returns, and the iteration whose
\* clock reading has reached the delay returns -1 when its poll reports no
\* key, whether or not a listed window is still valid; a wait with
\* delay <= 0 whose poll reports no key goes on while a listed window is
\* valid and returns, with -1, only in an iteration that finds every listed
\* window invalid.
C11_TimeoutEndsWait ==
    /\ (wk.pc = "loop" /\ wk.delay > 0) ~> (wk.pc = "idle")
    /\ [](Iterated /\ log.polled = NoKey =>
            /\ TimeoutFired => log.op = "waitKey_return" /\ log.key = -1
            /\ (log.delay <= 0 /\ ~AllInvalid(log.windows)) =>
                  log.op = "waitKey_continue" /\ wk.pc = "loop"
            /\ (log.delay <= 0 /\ log.op = "waitKey_return") =>
                  AllInvalid(log.windows) /\ log.key = -1)

\* C11 witness: a wait with a positive delay returned -1 on the timeout
\* while one of its windows was still valid.
C11_Witness ==
    /\ log.op = "waitKey_return"
    /\ log.polled = NoKey /\ log.key = -1
    /\ TimeoutFired
    /\ ~AllInvalid(log.windows)

(***************************************************************************)
(* Claims about resizing and rendering (Spec, SpecWait).                   *)
(***************************************************************************)

\* The calls of the given function among calls.
CallsOf(calls, fn) == SelectSeq(calls, LAMBDA c : c.fn = fn)

\* The calls Window.update makes on a valid window whose host reports size.
UpdateCalls(n, size) ==
    <<CallRect(n), CallRender(size)>>
        \o (IF size[1] * size[2] > 0 THEN <<CallImshow(n, size)>> ELSE <<>>)

\* C12: _update_size, as the pointer callback runs it on a valid window,
\* only queries the client rect when the cached image has the host's size:
\* no render, no imshow, the image unchanged; when the sizes differ it calls
\* update once: one render, at the host's size, and the image has that size
\* afterwards.
C12_UpdateSizeRendersOnMismatch ==
    [][\A o \in Objs :
          (log'.op = "callback" /\ log'.found /\ log'.obj = o /\ valid(o)) =>
              LET n == windowName[o]
                  size == hostWindows[n].size
              IN  IF mat[o] = size
                  THEN /\ log'.resize = <<CallRect(n)>>
                       /\ log'.ev.renderSize = mat[o]
                  ELSE /\ log'.resize = <<CallRect(n)>> \o UpdateCalls(n, size)
                       /\ Len(CallsOf(log'.resize, "render")) = 1
                       /\ log'.ev.renderSize = size]_vars

\* C12 witness: the callback's _update_size found the host window resized
\* and rendered once, at the new size.
C12_Witness ==
    /\ log.op = "callback" /\ log.found
    /\ Len(CallsOf(log.resize, "render")) = 1
    /\ log.ev.renderSize = hostWindows[log.tok].size
    /\ log.ev.renderSize # <<1, 1>>

\* C13: for a name without a host window the liveness query answers with a
\* negative value or with a fault, and valid() is False on either answer;
\* update(), and the _update_size and update() of a pointer callback, on a
\* Window that is not valid make no client-rect query, no render and no
\* imshow, and leave the cached image as it is.
C13_InvalidWindowIsLeftAlone ==
    /\ [](\A o \in Objs :
             (objState[o] # "none" /\ ~hostWindows[windowName[o]].exists) =>
                 /\ \A r \in GetWindowProperty(windowName[o]) :
                        (r.raised \/ r.value < 0) /\ ~ValidOf(r)
                 /\ ~valid(o))
    /\ [][/\ (log'.op = "update" /\ ~valid(log'.obj)) =>
                 log'.calls = <<>> /\ mat' = mat
          /\ (log'.op = "callback" /\ log'.found /\ ~valid(log'.obj)) =>
                 /\ log'.resize = <<>> /\ log'.after = <<>>
                 /\ mat' = mat]_vars

\* C13 witness: update() was called on a live Window object whose host
\* window the user had closed.
C13_Witness ==
    /\ log.op = "update"
    /\ objState[log.obj] = "live"
    /\ hostWindows[windowName[log.obj]] = Gone("user")
    /\ log.calls = <<>>

\* The listed windows that are valid and whose cached image has another
\* size than the host window has.
Stale(ws) ==
    {w \in Range(ws) : valid(w) /\ mat[w] # hostWindows[windowName[w]].size}

\* C14: an iteration of the wait loop that does not return calls
\* _update_size on every listed window, in the order of the list; it renders
\* once for each valid listed window whose host size differs from its cached
\* image, and after it the cached image of every valid listed window has the
\* host's size.
C14_LoopFollowsHostResize ==
    [][log'.op = "waitKey_continue" =>
          /\ CallsOf(log'.calls, "_update_size") =
                [i \in 1..Len(wk.windows) |->
                    [fn |-> "_update_size", obj |-> wk.windows[i]]]
          /\ Len(CallsOf(log'.calls, "render")) = Cardinality(Stale(wk.windows))
          /\ \A w \in Range(wk.windows) :
                valid(w) => mat'[w] = hostWindows[windowName[w]].size
          /\ \A w \in Stale(wk.windows) :
                \E i \in 1..Len(log'.calls) :
                    log'.calls[i] = CallRender(hostWindows[windowName[w]].size)]_vars

\* C14 witness: an iteration of a wait without timeout over two windows,
\* with no key, re-rendered a window that the host had resized.
C14_Witness ==
    /\ log.op = "waitKey_continue"
    /\ log.polled = NoKey /\ log.delay = 0
    /\ Len(log.windows) = 2
    /\ Len(CallsOf(log.calls, "render")) = 1
    /\ \E w \in Range(log.windows) :
          valid(w) /\ mat[w] = hostWindows[windowName[w]].size /\ mat[w] # <<1, 1>>

(***************************************************************************)
(* Claims about the pointer callback and the built-in handler              *)
(* (SpecAdapter).                                                          *)
(***************************************************************************)

\* C15 (as claimed): a pointer callback whose token is registered runs to
\* completion, in this order: _update_size; the MouseEvent, whose render size
\* is the cached image's size after that step (the host's size if the window
\* is valid); the dispatch; and update(), exactly if the dispatch returned
\* true.  A callback whose token is not registered does nothing.
C15_CallbackStepsInOrder ==
    [][log'.op = "callback" =>
          IF WINDOW_MAP[log'.tok] = 0
          THEN /\ ~log'.found
               /\ log'.resize = <<>> /\ log'.calls = <<>> /\ log'.after = <<>>
               /\ UNCHANGED <<mat, pressPosPix, lastPosPix>>
          ELSE LET o == WINDOW_MAP[log'.tok]
                   n == windowName[o]
                   ev == log'.ev
               IN  /\ log'.found /\ log'.obj = o
                   /\ ~log'.raised
                   /\ IF valid(o)
                      THEN /\ log'.resize # <<>>
                           /\ ev.renderSize = hostWindows[n].size
                      ELSE /\ log'.resize = <<>>
                           /\ ev.renderSize = mat[o]
                   /\ \A i \in 1..Len(log'.calls) :
                         /\ log'.calls[i].fn \in {"pan", "zoom"} =>
                               log'.calls[i].renderSize = ev.renderSize
                         /\ log'.calls[i].fn = "mouseEventHandler" =>
                               log'.calls[i].mouseEvent = ev
                   /\ log'.after =
                         IF log'.upd /\ valid(o)
                         THEN UpdateCalls(n, hostWindows[n].size)
                         ELSE <<>>
                   /\ mat'[o] = ev.renderSize]_vars

IsFlaggedMove(ev) == IsPanMove(ev) \/ IsZoomMove(ev)

\* C16: a ButtonDown(Middle) or ButtonDown(Right) sets _pressPosPix and
\* _lastPosPix to the event's outer point, calls nothing on the Axes, and
\* the built-in handler returns true.  The two positions then stay equal
\* until a flagged Move is handled, and a flagged Move handled while they
\* are equal takes its delta from the press position.
C16_PressSetsBothPositions ==
    [][\A o \in Objs :
          /\ (Dispatched' /\ log'.obj = o /\ IsPress(log'.ev)) =>
                /\ pressPosPix'[o] = <<log'.ev.x, log'.ev.y>>
                /\ lastPosPix'[o] = <<log'.ev.x, log'.ev.y>>
                /\ AxesCalls(log'.calls) = <<>>
                /\ log'.update_builtin /\ log'.upd
          /\ (lastPosPix[o] = pressPosPix[o]
                /\ ~(Dispatched' /\ log'.obj = o /\ IsFlaggedMove(log'.ev))) =>
                lastPosPix'[o] = pressPosPix'[o]
          /\ (lastPosPix[o] = pressPosPix[o]
                /\ Dispatched' /\ log'.obj = o /\ IsFlaggedMove(log'.ev)) =>
                LET ev == log'.ev
                    dx == ev.x - pressPosPix[o][1]
                    dy == ev.y - pressPosPix[o][2]
                IN  AxesCalls(log'.calls) =
                        IF IsPanMove(ev)
                        THEN <<CallPan(ev.renderSize, <<dx, dy>>)>>
                        ELSE <<CallZoom(ev.renderSize, pressPosPix[o],
                                        Pow("2.", -dx, 100), Pow("2.", dy, 100))>>]_vars

\* C16 witness: a right button press away from the origin, with a user
\* handler installed that asks for no re-render.
C16_Witness ==
    /\ Dispatched /\ log.ev.event = EVENT_RBUTTONDOWN
    /\ pressPosPix[log.obj] = <<MaxCoord, MaxCoord>>
    /\ lastPosPix[log.obj] = <<MaxCoord, MaxCoord>>
    /\ handlerSet[log.obj] /\ ~log.update_user /\ log.upd

\* The events the built-in handler has a branch for.
IsHandled(ev) ==
    \/ IsPress(ev)
    \/ IsFlaggedMove(ev)
    \/ ev.event \in {EVENT_RBUTTONDBLCLK, EVENT_MOUSEWHEEL}

\* C17: on every other event (a Move with neither MBUTTON nor RBUTTON set,
\* ButtonDown(Left), a ButtonUp, DoubleClick(Left or Middle), a horizontal
\* wheel), whatever its flags, the built-in handler returns false, calls
\* nothing on the Axes and keeps _pressPosPix and _lastPosPix.
C17_OtherEventsIgnored ==
    [][(Dispatched' /\ ~IsHandled(log'.ev)) =>
          LET o == log'.obj
          IN  /\ ~log'.update_builtin /\ ~log'.raised
              /\ AxesCalls(log'.calls) = <<>>
              /\ pressPosPix'[o] = pressPosPix[o]
              /\ lastPosPix'[o] = lastPosPix[o]
              /\ log'.upd = log'.update_user]_vars

\* C17 witness: a Move with only the left button held, at a point other
\* than the last recorded one, was ignored.
C17_Witness ==
    /\ Dispatched /\ log.ev.event = EVENT_MOUSEMOVE /\ log.ev.flags = 1
    /\ lastPosPix[log.obj] # <<log.ev.x, log.ev.y>>
    /\ pressPosPix[log.obj] # lastPosPix[log.obj]
    /\ ~log.upd /\ log.after = <<>>

\* C18 (as claimed): after any Move, whatever its flags, _lastPosPix is the
\* Move's outer point.
C18_LastFollowsEveryMove ==
    [][(Dispatched' /\ log'.ev.event = EVENT_MOUSEMOVE) =>
          lastPosPix'[log'.obj] = <<log'.ev.x, log'.ev.y>>]_vars

\* C18 (amended): after a Move with MBUTTON or RBUTTON set _lastPosPix is
\* the Move's outer point, and the pan delta or the zoom scales of that Move
\* are taken from outerPoint - _lastPosPix as it was before; a Move with
\* neither flag leaves _lastPosPix as it was.
C18_LastFollowsFlaggedMoves ==
    [][(Dispatched' /\ log'.ev.event = EVENT_MOUSEMOVE) =>
          LET o == log'.obj
              ev == log'.ev
              dx == ev.x - lastPosPix[o][1]
              dy == ev.y - lastPosPix[o][2]
          IN  IF IsFlaggedMove(ev)
              THEN /\ lastPosPix'[o] = <<ev.x, ev.y>>
                   /\ \A i \in 1..Len(log'.calls) :
                         /\ log'.calls[i].fn = "pan" =>
                               log'.calls[i].delta = <<dx, dy>>
                         /\ log'.calls[i].fn = "zoom" =>
                               /\ log'.calls[i].scaleX = Pow("2.", -dx, 100)
                               /\ log'.calls[i].scaleY = Pow("2.", dy, 100)
              ELSE lastPosPix'[o] = lastPosPix[o]]_vars

\* C18 witness: a Move with no button held, at a point other than the last
\* recorded one, left _lastPosPix where the press had put it.
C18_Witness ==
    /\ Dispatched /\ log.ev.event = EVENT_MOUSEMOVE /\ log.ev.flags = 0
    /\ lastPosPix[log.obj] # <<log.ev.x, log.ev.y>>
    /\ lastPosPix[log.obj] = pressPosPix[log.obj]
    /\ lastPosPix[log.obj] # <<0, 0>>

\* C19: a Move with both MBUTTON and RBUTTON set pans exactly once, by
\* outerPoint - _lastPosPix, does not zoom, and moves _lastPosPix to the
\* outer point; no dispatch of a Move calls both pan and zoom.
C19_MiddleBeatsRight ==
    [][(Dispatched' /\ log'.ev.event = EVENT_MOUSEMOVE) =>
          LET o == log'.obj
              ev == log'.ev
          IN  /\ (HasFlag(ev.flags, EVENT_FLAG_MBUTTON)
                    /\ HasFlag(ev.flags, EVENT_FLAG_RBUTTON)) =>
                    /\ CallsOf(log'.calls, "pan") =
                          <<CallPan(ev.renderSize,
                                    <<ev.x - lastPosPix[o][1], ev.y - lastPosPix[o][2]>>)>>
                    /\ CallsOf(log'.calls, "zoom") = <<>>
                    /\ lastPosPix'[o] = <<ev.x, ev.y>>
              /\ Len(CallsOf(log'.calls, "pan")) + Len(CallsOf(log'.calls, "zoom")) <= 1]_vars

\* C19 witness: a Move with the middle and right buttons held (and not the
\* left), by a non-zero delta, panned; the press position lies elsewhere.
C19_Witness ==
    /\ Dispatched /\ log.ev.event = EVENT_MOUSEMOVE /\ log.ev.flags = 6
    /\ \E c \in Range(log.calls) : c.fn = "pan" /\ c.delta # <<0, 0>>
    /\ pressPosPix[log.obj] # <<log.ev.x, log.ev.y>>

\* C20: during a middle-button drag (from a ButtonDown(Middle) at p0, over
\* Moves with MBUTTON set and any events that neither pan nor change
\* _lastPosPix) the deltas passed to pan add up to the travel of the
\* pointer: after a Move with MBUTTON set at pn the sum is pn - p0, and
\* between such Moves it is _lastPosPix - p0.
C20_PanDeltasSumToTravel ==
    \A o \in Objs :
        drag[o].on =>
            /\ drag[o].sum = <<lastPosPix[o][1] - drag[o].start[1],
                               lastPosPix[o][2] - drag[o].start[2]>>
            /\ (Dispatched /\ log.obj = o /\ IsPanMove(log.ev)) =>
                  drag[o].sum = <<log.ev.x - drag[o].start[1],
                                  log.ev.y - drag[o].start[2]>>

\* C20 witness: a Move of a drag panned by a delta other than the travel
\* since the press, so that earlier Moves of the drag have panned too.
C20_Witness ==
    /\ Dispatched /\ IsPanMove(log.ev)
    /\ drag[log.obj].on
    /\ drag[log.obj].sum # <<0, 0>>
    /\ \E c \in Range(log.calls) :
          c.fn = "pan" /\ c.delta # <<0, 0>> /\ c.delta # drag[log.obj].sum

====
